---- MODULE Spec2Model ----
(***************************************************************************)
(* A model of src/app_alternate.py: the adaptive rate limiter              *)
(* (RateLimitManager), the retry loop (ResilientLLMConfig), the task       *)
(* complexity classifier (TaskComplexityAnalyzer), the agent builder       *)
(* (EnhancedAutoAgentBuilder) and main.                                    *)
(*                                                                         *)
(* Time is the value of time.time() in whole seconds.  Objects are         *)
(* records; a method is an operator from the object (and the clock) to the *)
(* object after the call.                                                  *)
(***************************************************************************)
EXTENDS Integers, Sequences, FiniteSets, TLC

VARIABLES
    rate_manager,   \* the RateLimitManager object main constructs
    now,            \* time.time()
    last_op,        \* the RateLimitManager method that returned last
    snap,           \* (current_rpm, error_count) before each of the last <= 3
                    \* record_error calls made since the last record_success
    run_len,        \* record_error calls since the last record_success, up to 4
    blocked,        \* whether the last wait_if_needed call had to sleep
    calls,          \* RateLimitManager calls made so far in SpecLimiter
    pc,             \* where execute_with_retry stands
    attempt,        \* its loop variable
    retry_delay,    \* the seconds it is about to sleep
    history,        \* what func did on each call of this invocation
    sleeps,         \* the seconds it slept after each failed attempt
    result,         \* what the invocation returned or raised
    n_record_success,   \* record_success calls of this invocation
    n_record_error,     \* record_error calls of this invocation
    func_calls,     \* calls of func made so far, over all invocations
    task_description,   \* the task text main read, <<>> before it is read
    complexity,     \* the tier analyze_complexity returned, "none" before
    analyses,       \* analyze_complexity calls so far
    main_pc,        \* where main stands
    chat,           \* what the chat with the TaskAnalyzer did
    agent_list,     \* what analyze_task_and_build_agents returned
    base_agents,    \* the agents main gives to the GroupChat
    max_rounds,     \* the max_round main gives to the GroupChat, 0 before
    main_error,     \* the exception main's except block caught, "none" if none
    interrupted,    \* the sleep a KeyboardInterrupt ended the run in, "none" if none
    errors_since_decrease   \* record_error calls since current_rpm last went
                    \* down (since construction before that), up to 3

ghostVars == <<last_op, snap, run_len, blocked, calls>>

limiterVars == <<rate_manager, now, ghostVars>>

retryVars == <<pc, attempt, retry_delay, history, sleeps, result,
               n_record_success, n_record_error, func_calls>>

classifyVars == <<task_description, complexity, analyses>>

buildVars == <<main_pc, chat, agent_list, base_agents, max_rounds, main_error>>

runVars == <<interrupted, errors_since_decrease>>

vars == <<limiterVars, retryVars, classifyVars, buildVars, runVars>>

(***************************************************************************)
(* Bounds of the model.                                                    *)
(***************************************************************************)
MaxSuccess == 460        \* record_success calls in SpecCounters
MaxTime == 130           \* the clock's last value in SpecLimiter
MaxCalls == 12           \* RateLimitManager calls in SpecLimiter
TickSeconds == 30        \* how far the clock advances between two calls
MaxFuncCalls == 6        \* calls of func in SpecRetry, over all invocations
MaxAnalyses == 2         \* analyze_complexity calls in SpecClassify
MaxExtraWords == 3       \* words of the longest task text beyond 100
MaxSpecs == 8            \* agent specifications in the longest reply

(***************************************************************************)
(* Program constants.                                                      *)
(***************************************************************************)
WindowSeconds == 60
FreeBaseRpm == 8
PaidBaseRpm == 15
FreeMaxRpm == 15
PaidMaxRpm == 60
MinRpm == 3
SuccessesPerIncrease == 10
ErrorsPerDecrease == 3
RpmDecrease == 2

Min(a, b) == IF a < b THEN a ELSE b
Max(a, b) == IF a > b THEN a ELSE b

\* min(self.request_times)
SeqMin(s) == CHOOSE m \in {s[i] : i \in DOMAIN s} : \A i \in DOMAIN s : m <= s[i]

\* [t for t in ts if pred]
RECURSIVE Retain(_, _)
Retain(ts, t) ==
    IF ts = <<>> THEN <<>>
    ELSE IF t - Head(ts) < WindowSeconds
         THEN <<Head(ts)>> \o Retain(Tail(ts), t)
         ELSE Retain(Tail(ts), t)

(***************************************************************************)
(* class RateLimitManager                                                  *)
(***************************************************************************)
RateLimitManager(base_rpm, is_paid_tier) ==
    [ base_rpm             |-> base_rpm,
      is_paid_tier         |-> is_paid_tier,
      current_rpm          |-> base_rpm,
      request_times        |-> <<>>,
      error_count          |-> 0,
      success_count        |-> 0,
      last_rate_limit_time |-> <<>>,      \* None
      max_rpm              |-> IF is_paid_tier THEN PaidMaxRpm ELSE FreeMaxRpm,
      min_rpm              |-> MinRpm ]

\* main: RateLimitManager(base_rpm=15 if is_paid_tier else 8, is_paid_tier=...)
MainRateManager(is_paid_tier) ==
    RateLimitManager(IF is_paid_tier THEN PaidBaseRpm ELSE FreeBaseRpm, is_paid_tier)

get_current_limit(rm) == rm.current_rpm

\* Prunes request_times (a side effect) and answers whether a slot is free.
can_make_request(rm, t) ==
    LET kept == Retain(rm.request_times, t)
    IN  [ rm     |-> [rm EXCEPT !.request_times = kept],
          result |-> Len(kept) < rm.current_rpm ]

\* jitter is the value random.uniform(1, 3) returns.
wait_if_needed(rm, t, jitter) ==
    LET c == can_make_request(rm, t)
    IN  IF c.result
        THEN [ rm   |-> [c.rm EXCEPT !.request_times = Append(@, t)],
               now  |-> t,
               wait |-> 0 ]
        ELSE LET wait_time ==
                     IF c.rm.request_times # <<>>
                     THEN WindowSeconds - (t - SeqMin(c.rm.request_times)) + jitter
                     ELSE WindowSeconds \div c.rm.current_rpm
             IN  \* time.sleep(wait_time), then append with no second check
                 [ rm   |-> [c.rm EXCEPT !.request_times = Append(@, t + wait_time)],
                   now  |-> t + wait_time,
                   wait |-> wait_time ]

\* wait_if_needed, were it to append the timestamp before it sleeps: the
\* object a KeyboardInterrupt in time.sleep(wait_time) would then leave
wait_if_needed_interrupted_appended(rm, t) ==
    LET c == can_make_request(rm, t)
    IN  [c.rm EXCEPT !.request_times = Append(@, t)]

\* wait_if_needed on a full window, up to a KeyboardInterrupt raised in
\* time.sleep(wait_time): can_make_request has pruned request_times, the
\* append after the sleep is not reached.
wait_if_needed_interrupted(rm, t) == can_make_request(rm, t).rm

\* record_success raising the ceiling on every 5th success.
record_success_every_fifth(rm) ==
    LET n  == rm.success_count + 1
        r1 == [rm EXCEPT !.success_count = n,
                         !.error_count = Max(0, rm.error_count - 1)]
    IN  IF n % 5 = 0 /\ r1.current_rpm < r1.max_rpm
        THEN [r1 EXCEPT !.current_rpm = Min(r1.current_rpm + 1, r1.max_rpm)]
        ELSE r1

record_success(rm) ==
    LET n  == rm.success_count + 1
        r1 == [rm EXCEPT !.success_count = n,
                         !.error_count = Max(0, rm.error_count - 1)]
    IN  IF n % SuccessesPerIncrease = 0 /\ r1.current_rpm < r1.max_rpm
        THEN [r1 EXCEPT !.current_rpm = Min(r1.current_rpm + 1, r1.max_rpm)]
        ELSE r1

\* record_error lowering the ceiling with no floor.
record_error_no_floor(rm, t) ==
    LET r1 == [rm EXCEPT !.error_count = rm.error_count + 1,
                         !.last_rate_limit_time = <<t>>]
    IN  IF r1.error_count >= ErrorsPerDecrease
        THEN [r1 EXCEPT !.current_rpm = r1.current_rpm - RpmDecrease,
                        !.error_count = 0]
        ELSE r1

\* record_error comparing with > where the code compares with >=.
record_error_after_fourth(rm, t) ==
    LET r1 == [rm EXCEPT !.error_count = rm.error_count + 1,
                         !.last_rate_limit_time = <<t>>]
    IN  IF r1.error_count > ErrorsPerDecrease
        THEN [r1 EXCEPT !.current_rpm = Max(r1.current_rpm - RpmDecrease, r1.min_rpm),
                        !.error_count = 0]
        ELSE r1

\* record_error lowering the ceiling at the second error.
record_error_at_second(rm, t) ==
    LET r1 == [rm EXCEPT !.error_count = rm.error_count + 1,
                         !.last_rate_limit_time = <<t>>]
    IN  IF r1.error_count >= ErrorsPerDecrease - 1
        THEN [r1 EXCEPT !.current_rpm = Max(r1.current_rpm - RpmDecrease, r1.min_rpm),
                        !.error_count = 0]
        ELSE r1

record_error(rm, t) ==
    LET r1 == [rm EXCEPT !.error_count = rm.error_count + 1,
                         !.last_rate_limit_time = <<t>>]
    IN  IF r1.error_count >= ErrorsPerDecrease
        THEN [r1 EXCEPT !.current_rpm = Max(r1.current_rpm - RpmDecrease, r1.min_rpm),
                        !.error_count = 0]
        ELSE r1


(***************************************************************************)
(* Text.  A Python str is the sequence of its characters.                  *)
(***************************************************************************)
\* s[i:] starts with k (i counts from 1)
StartsWithAt(s, i, k) ==
    /\ i + Len(k) - 1 <= Len(s)
    /\ \A j \in 1..Len(k) : s[i + j - 1] = k[j]

\* k in s
Contains(s, k) == \E i \in 1..(Len(s) + 1) : StartsWithAt(s, i, k)

Digits == <<"0", "1", "2", "3", "4", "5", "6", "7", "8", "9">>

IsDigit(c) == \E d \in DOMAIN Digits : Digits[d] = c

DigitValue(c) == (CHOOSE d \in DOMAIN Digits : Digits[d] = c) - 1

\* the first position at or after i that holds no digit
RECURSIVE DigitsEnd(_, _)
DigitsEnd(s, i) ==
    IF i <= Len(s) /\ IsDigit(s[i]) THEN DigitsEnd(s, i + 1) ELSE i

\* int(s[i:j]) for a run of digits
RECURSIVE ParseInt(_, _, _)
ParseInt(s, i, j) ==
    IF j <= i THEN 0 ELSE 10 * ParseInt(s, i, j - 1) + DigitValue(s[j - 1])

\* "429"
Marker429 ==
    <<"4", "2", "9">>

\* "RESOURCE_EXHAUSTED"
MarkerResourceExhausted ==
    <<"R", "E", "S", "O", "U", "R", "C", "E", "_", "E", "X", "H", "A", "U",
      "S", "T", "E", "D">>

\* "QUOTA_EXCEEDED"
MarkerQuotaExceeded ==
    <<"Q", "U", "O", "T", "A", "_", "E", "X", "C", "E", "E", "D", "E", "D">>

\* "'retryDelay': '"
RetryDelayPrefix ==
    <<"'", "r", "e", "t", "r", "y", "D", "e", "l", "a", "y", "'", ":", " ",
      "'">>

\* "s'"
RetryDelaySuffix ==
    <<"s", "'">>

(***************************************************************************)
(* Exceptions.  An exception is named by its identity; str(e) is its       *)
(* message.  The first six are what the wrapped call raises, the last two  *)
(* what execute_with_retry raises itself.                                  *)
(***************************************************************************)
\* "429 Too Many Requests"
Text429 ==
    <<"4", "2", "9", " ", "T", "o", "o", " ", "M", "a", "n", "y", " ", "R",
      "e", "q", "u", "e", "s", "t", "s">>

\* "RESOURCE_EXHAUSTED 'retryDelay': '7s'"
TextExhaustedDelay ==
    <<"R", "E", "S", "O", "U", "R", "C", "E", "_", "E", "X", "H", "A", "U",
      "S", "T", "E", "D", " ", "'", "r", "e", "t", "r", "y", "D", "e", "l",
      "a", "y", "'", ":", " ", "'", "7", "s", "'">>

\* "429 QUOTA_EXCEEDED"
Text429Quota ==
    <<"4", "2", "9", " ", "Q", "U", "O", "T", "A", "_", "E", "X", "C", "E",
      "E", "D", "E", "D">>

\* "QUOTA_EXCEEDED billing"
TextQuota ==
    <<"Q", "U", "O", "T", "A", "_", "E", "X", "C", "E", "E", "D", "E", "D",
      " ", "b", "i", "l", "l", "i", "n", "g">>

\* "Connection reset"
TextReset ==
    <<"C", "o", "n", "n", "e", "c", "t", "i", "o", "n", " ", "r", "e", "s",
      "e", "t">>

\* "timed out"
TextTimeout ==
    <<"t", "i", "m", "e", "d", " ", "o", "u", "t">>

\* "Rate limit exceeded after maximum retries"
TextRetryExhausted ==
    <<"R", "a", "t", "e", " ", "l", "i", "m", "i", "t", " ", "e", "x", "c",
      "e", "e", "d", "e", "d", " ", "a", "f", "t", "e", "r", " ", "m", "a",
      "x", "i", "m", "u", "m", " ", "r", "e", "t", "r", "i", "e", "s">>

\* "API quota exceeded"
TextQuotaExceeded ==
    <<"A", "P", "I", " ", "q", "u", "o", "t", "a", " ", "e", "x", "c", "e",
      "e", "d", "e", "d">>

CallErrors ==
    {"Err429", "ErrExhaustedDelay", "Err429Quota", "ErrQuota", "ErrReset", "ErrTimeout"}

str(e) ==
    CASE e = "Err429"            -> Text429
      [] e = "ErrExhaustedDelay" -> TextExhaustedDelay
      [] e = "Err429Quota"       -> Text429Quota
      [] e = "ErrQuota"          -> TextQuota
      [] e = "ErrReset"          -> TextReset
      [] e = "ErrTimeout"        -> TextTimeout
      [] e = "RetryExhausted"    -> TextRetryExhausted
      [] e = "QuotaExceeded"     -> TextQuotaExceeded

\* What the wrapped call returns when it succeeds.
CallResults == {"replyA", "replyB"}

(***************************************************************************)
(* class ResilientLLMConfig                                                *)
(***************************************************************************)
max_retries == 5
base_delay == 30
OtherErrorRetries == 2
OtherErrorDelay == 5

\* 2 ** n
RECURSIVE Pow2(_)
Pow2(n) == IF n = 0 THEN 1 ELSE 2 * Pow2(n - 1)

\* re.search(r"'retryDelay': '(\d+)s'", error_str): the first position where
\* the pattern matches, 0 when it matches nowhere.
RetryDelayMatchAt(error_str, i) ==
    /\ StartsWithAt(error_str, i, RetryDelayPrefix)
    /\ LET from == i + Len(RetryDelayPrefix)
           to   == DigitsEnd(error_str, from)
       IN  to > from /\ StartsWithAt(error_str, to, RetryDelaySuffix)

RECURSIVE RetryDelaySearch(_, _)
RetryDelaySearch(error_str, i) ==
    IF i > Len(error_str) THEN 0
    ELSE IF RetryDelayMatchAt(error_str, i) THEN i
    ELSE RetryDelaySearch(error_str, i + 1)

RetryDelayMatch(error_str) == RetryDelaySearch(error_str, 1)

\* random.randint(5, 10) is drawn only when the pattern matches.
RandintDrawn(error_str) ==
    IF RetryDelayMatch(error_str) # 0 THEN 5..10 ELSE {0}

\* _extract_retry_delay, were the suggested delay never to shorten the sleep
_extract_retry_delay_larger(error_str, default_delay, rand) ==
    LET m == RetryDelayMatch(error_str)
    IN  IF m # 0
        THEN LET from == m + Len(RetryDelayPrefix)
             IN  Max(ParseInt(error_str, from, DigitsEnd(error_str, from)) + rand,
                     default_delay)
        ELSE default_delay

\* rand is the value random.randint(5, 10) returns.
_extract_retry_delay(error_str, default_delay, rand) ==
    LET m == RetryDelayMatch(error_str)
    IN  IF m # 0
        THEN LET from == m + Len(RetryDelayPrefix)
             IN  ParseInt(error_str, from, DigitsEnd(error_str, from)) + rand
        ELSE default_delay

\* The except block forgetting record_error on a throttling error.
handle_exception_no_record(rm, t, attempt_, e, rand) ==
    LET error_str == str(e)
    IN  IF \/ Contains(error_str, Marker429)
           \/ Contains(error_str, MarkerResourceExhausted)
        THEN LET rm1 == rm
             IN  IF attempt_ < max_retries - 1
                 THEN [ rm |-> rm1, recorded |-> 0, next |-> "sleep",
                        retry_delay |-> _extract_retry_delay(
                            error_str, base_delay * Pow2(attempt_), rand),
                        raised |-> "none" ]
                 ELSE [ rm |-> rm1, recorded |-> 0, next |-> "raise",
                        retry_delay |-> 0, raised |-> "RetryExhausted" ]
        ELSE IF Contains(error_str, MarkerQuotaExceeded)
        THEN [ rm |-> rm, recorded |-> 0, next |-> "raise",
               retry_delay |-> 0, raised |-> "QuotaExceeded" ]
        ELSE IF attempt_ < OtherErrorRetries
        THEN [ rm |-> rm, recorded |-> 0, next |-> "sleep",
               retry_delay |-> OtherErrorDelay, raised |-> "none" ]
        ELSE [ rm |-> rm, recorded |-> 0, next |-> "raise",
               retry_delay |-> 0, raised |-> e ]

\* The except block comparing attempt with max_retries, not max_retries - 1.
handle_exception_one_more(rm, t, attempt_, e, rand) ==
    LET error_str == str(e)
    IN  IF \/ Contains(error_str, Marker429)
           \/ Contains(error_str, MarkerResourceExhausted)
        THEN LET rm1 == record_error(rm, t)
             IN  IF attempt_ < max_retries
                 THEN [ rm |-> rm1, recorded |-> 1, next |-> "sleep",
                        retry_delay |-> _extract_retry_delay(
                            error_str, base_delay * Pow2(attempt_), rand),
                        raised |-> "none" ]
                 ELSE [ rm |-> rm1, recorded |-> 1, next |-> "raise",
                        retry_delay |-> 0, raised |-> "RetryExhausted" ]
        ELSE IF Contains(error_str, MarkerQuotaExceeded)
        THEN [ rm |-> rm, recorded |-> 0, next |-> "raise",
               retry_delay |-> 0, raised |-> "QuotaExceeded" ]
        ELSE IF attempt_ < OtherErrorRetries
        THEN [ rm |-> rm, recorded |-> 0, next |-> "sleep",
               retry_delay |-> OtherErrorDelay, raised |-> "none" ]
        ELSE [ rm |-> rm, recorded |-> 0, next |-> "raise",
               retry_delay |-> 0, raised |-> e ]

\* The except block retrying another error once (attempt < 1).
handle_exception_retry_once(rm, t, attempt_, e, rand) ==
    LET error_str == str(e)
    IN  IF \/ Contains(error_str, Marker429)
           \/ Contains(error_str, MarkerResourceExhausted)
        THEN LET rm1 == record_error(rm, t)
             IN  IF attempt_ < max_retries - 1
                 THEN [ rm |-> rm1, recorded |-> 1, next |-> "sleep",
                        retry_delay |-> _extract_retry_delay(
                            error_str, base_delay * Pow2(attempt_), rand),
                        raised |-> "none" ]
                 ELSE [ rm |-> rm1, recorded |-> 1, next |-> "raise",
                        retry_delay |-> 0, raised |-> "RetryExhausted" ]
        ELSE IF Contains(error_str, MarkerQuotaExceeded)
        THEN [ rm |-> rm, recorded |-> 0, next |-> "raise",
               retry_delay |-> 0, raised |-> "QuotaExceeded" ]
        ELSE IF attempt_ < 1
        THEN [ rm |-> rm, recorded |-> 0, next |-> "sleep",
               retry_delay |-> OtherErrorDelay, raised |-> "none" ]
        ELSE [ rm |-> rm, recorded |-> 0, next |-> "raise",
               retry_delay |-> 0, raised |-> e ]

\* The except block retrying another error at every attempt.
handle_exception_other_always(rm, t, attempt_, e, rand) ==
    LET error_str == str(e)
    IN  IF \/ Contains(error_str, Marker429)
           \/ Contains(error_str, MarkerResourceExhausted)
        THEN LET rm1 == record_error(rm, t)
             IN  IF attempt_ < max_retries - 1
                 THEN [ rm |-> rm1, recorded |-> 1, next |-> "sleep",
                        retry_delay |-> _extract_retry_delay(
                            error_str, base_delay * Pow2(attempt_), rand),
                        raised |-> "none" ]
                 ELSE [ rm |-> rm1, recorded |-> 1, next |-> "raise",
                        retry_delay |-> 0, raised |-> "RetryExhausted" ]
        ELSE IF Contains(error_str, MarkerQuotaExceeded)
        THEN [ rm |-> rm, recorded |-> 0, next |-> "raise",
               retry_delay |-> 0, raised |-> "QuotaExceeded" ]
        ELSE [ rm |-> rm, recorded |-> 0, next |-> "sleep",
               retry_delay |-> OtherErrorDelay, raised |-> "none" ]

\* The except block of execute_with_retry: what it does with exception e
\* raised in iteration `attempt`.  next is "sleep" (time.sleep(retry_delay),
\* then continue) or "raise" (raised is the exception that leaves the call);
\* recorded counts the record_error calls it made.
handle_exception(rm, t, attempt_, e, rand) ==
    LET error_str == str(e)
    IN  IF \/ Contains(error_str, Marker429)
           \/ Contains(error_str, MarkerResourceExhausted)
        THEN LET rm1 == record_error(rm, t)
             IN  IF attempt_ < max_retries - 1
                 THEN [ rm |-> rm1, recorded |-> 1, next |-> "sleep",
                        retry_delay |-> _extract_retry_delay(
                            error_str, base_delay * Pow2(attempt_), rand),
                        raised |-> "none" ]
                 ELSE [ rm |-> rm1, recorded |-> 1, next |-> "raise",
                        retry_delay |-> 0, raised |-> "RetryExhausted" ]
        ELSE IF Contains(error_str, MarkerQuotaExceeded)
        THEN [ rm |-> rm, recorded |-> 0, next |-> "raise",
               retry_delay |-> 0, raised |-> "QuotaExceeded" ]
        ELSE IF attempt_ < OtherErrorRetries
        THEN [ rm |-> rm, recorded |-> 0, next |-> "sleep",
               retry_delay |-> OtherErrorDelay, raised |-> "none" ]
        ELSE [ rm |-> rm, recorded |-> 0, next |-> "raise",
               retry_delay |-> 0, raised |-> e ]

(***************************************************************************)
(* class TaskComplexityAnalyzer                                            *)
(***************************************************************************)
UpperCase ==
    <<"A", "B", "C", "D", "E", "F", "G", "H", "I", "J", "K", "L", "M",
      "N", "O", "P", "Q", "R", "S", "T", "U", "V", "W", "X", "Y", "Z">>

LowerCase ==
    <<"a", "b", "c", "d", "e", "f", "g", "h", "i", "j", "k", "l", "m",
      "n", "o", "p", "q", "r", "s", "t", "u", "v", "w", "x", "y", "z">>

\* str.lower(), on ASCII text
lower(s) ==
    [i \in 1..Len(s) |->
        IF \E k \in DOMAIN UpperCase : UpperCase[k] = s[i]
        THEN LowerCase[CHOOSE k \in DOMAIN UpperCase : UpperCase[k] = s[i]]
        ELSE s[i]]

Whitespace == {" ", "\t", "\n"}

\* len(s.split()): the maximal runs of non-whitespace characters
WordCount(s) ==
    Cardinality({i \in 1..Len(s) :
                    /\ s[i] \notin Whitespace
                    /\ (i = 1 \/ s[i - 1] \in Whitespace)})

\* Enterprise-level indicators
enterprise_keywords ==
    <<
      \* 'enterprise'
      <<"e", "n", "t", "e", "r", "p", "r", "i", "s", "e">>,
      \* 'large-scale'
      <<"l", "a", "r", "g", "e", "-", "s", "c", "a", "l", "e">>,
      \* 'production'
      <<"p", "r", "o", "d", "u", "c", "t", "i", "o", "n">>,
      \* 'deployment'
      <<"d", "e", "p", "l", "o", "y", "m", "e", "n", "t">>,
      \* 'scalable'
      <<"s", "c", "a", "l", "a", "b", "l", "e">>,
      \* 'multi-platform'
      <<"m", "u", "l", "t", "i", "-", "p", "l", "a", "t", "f", "o", "r",
        "m">>,
      \* 'comprehensive system'
      <<"c", "o", "m", "p", "r", "e", "h", "e", "n", "s", "i", "v", "e", " ",
        "s", "y", "s", "t", "e", "m">>,
      \* 'full-stack'
      <<"f", "u", "l", "l", "-", "s", "t", "a", "c", "k">>,
      \* 'architecture'
      <<"a", "r", "c", "h", "i", "t", "e", "c", "t", "u", "r", "e">>
    >>

\* Complex task indicators
complex_keywords ==
    <<
      \* 'machine learning'
      <<"m", "a", "c", "h", "i", "n", "e", " ", "l", "e", "a", "r", "n", "i",
        "n", "g">>,
      \* 'ai model'
      <<"a", "i", " ", "m", "o", "d", "e", "l">>,
      \* 'deep learning'
      <<"d", "e", "e", "p", " ", "l", "e", "a", "r", "n", "i", "n", "g">>,
      \* 'neural network'
      <<"n", "e", "u", "r", "a", "l", " ", "n", "e", "t", "w", "o", "r",
        "k">>,
      \* 'data analysis'
      <<"d", "a", "t", "a", " ", "a", "n", "a", "l", "y", "s", "i", "s">>,
      \* 'statistical analysis'
      <<"s", "t", "a", "t", "i", "s", "t", "i", "c", "a", "l", " ", "a", "n",
        "a", "l", "y", "s", "i", "s">>,
      \* 'research paper'
      <<"r", "e", "s", "e", "a", "r", "c", "h", " ", "p", "a", "p", "e",
        "r">>,
      \* 'comprehensive'
      <<"c", "o", "m", "p", "r", "e", "h", "e", "n", "s", "i", "v", "e">>,
      \* 'multiple datasets'
      <<"m", "u", "l", "t", "i", "p", "l", "e", " ", "d", "a", "t", "a", "s",
        "e", "t", "s">>,
      \* 'web scraping'
      <<"w", "e", "b", " ", "s", "c", "r", "a", "p", "i", "n", "g">>,
      \* 'api integration'
      <<"a", "p", "i", " ", "i", "n", "t", "e", "g", "r", "a", "t", "i", "o",
        "n">>,
      \* 'database'
      <<"d", "a", "t", "a", "b", "a", "s", "e">>
    >>

\* Medium complexity indicators
medium_keywords ==
    <<
      \* 'analyze'
      <<"a", "n", "a", "l", "y", "z", "e">>,
      \* 'build'
      <<"b", "u", "i", "l", "d">>,
      \* 'create'
      <<"c", "r", "e", "a", "t", "e">>,
      \* 'develop'
      <<"d", "e", "v", "e", "l", "o", "p">>,
      \* 'implement'
      <<"i", "m", "p", "l", "e", "m", "e", "n", "t">>,
      \* 'design'
      <<"d", "e", "s", "i", "g", "n">>,
      \* 'application'
      <<"a", "p", "p", "l", "i", "c", "a", "t", "i", "o", "n">>,
      \* 'tool'
      <<"t", "o", "o", "l">>,
      \* 'script'
      <<"s", "c", "r", "i", "p", "t">>,
      \* 'visualization'
      <<"v", "i", "s", "u", "a", "l", "i", "z", "a", "t", "i", "o", "n">>,
      \* 'report'
      <<"r", "e", "p", "o", "r", "t">>
    >>

\* any(keyword in text for keyword in keywords)
AnyKeywordIn(keywords, text) ==
    \E k \in DOMAIN keywords : Contains(text, keywords[k])

EnterpriseWords == 100
ComplexWords == 50
MediumWords == 20

\* analyze_complexity with >= where the code compares the word count with >
analyze_complexity_inclusive(task) ==
    LET task_lower == lower(task)
        word_count == WordCount(task)
    IN  IF AnyKeywordIn(enterprise_keywords, task_lower) \/ word_count >= EnterpriseWords
        THEN "enterprise"
        ELSE IF AnyKeywordIn(complex_keywords, task_lower) \/ word_count >= ComplexWords
        THEN "complex"
        ELSE IF AnyKeywordIn(medium_keywords, task_lower) \/ word_count >= MediumWords
        THEN "medium"
        ELSE "simple"

\* The value of the TaskComplexity member returned.
analyze_complexity(task) ==
    LET task_lower == lower(task)
        word_count == WordCount(task)
    IN  IF AnyKeywordIn(enterprise_keywords, task_lower) \/ word_count > EnterpriseWords
        THEN "enterprise"
        ELSE IF AnyKeywordIn(complex_keywords, task_lower) \/ word_count > ComplexWords
        THEN "complex"
        ELSE IF AnyKeywordIn(medium_keywords, task_lower) \/ word_count > MediumWords
        THEN "medium"
        ELSE "simple"

(***************************************************************************)
(* Task texts: a phrase followed by filler words that match no keyword,    *)
(* as many as bring the text to a word count at or next to a threshold.    *)
(***************************************************************************)
\* The phrases: 2 to 5 are the task examples main prints, 6 is its sample task.
TaskPhrases ==
    <<
      \* 'so'
      <<"s", "o">>,
      \* 'Summarize a research topic'
      <<"S", "u", "m", "m", "a", "r", "i", "z", "e", " ", "a", " ", "r", "e",
        "s", "e", "a", "r", "c", "h", " ", "t", "o", "p", "i", "c">>,
      \* 'Analyze a dataset and create visualizations'
      <<"A", "n", "a", "l", "y", "z", "e", " ", "a", " ", "d", "a", "t", "a",
        "s", "e", "t", " ", "a", "n", "d", " ", "c", "r", "e", "a", "t", "e",
        " ", "v", "i", "s", "u", "a", "l", "i", "z", "a", "t", "i", "o", "n",
        "s">>,
      \* 'Build a machine learning model for prediction'
      <<"B", "u", "i", "l", "d", " ", "a", " ", "m", "a", "c", "h", "i", "n",
        "e", " ", "l", "e", "a", "r", "n", "i", "n", "g", " ", "m", "o", "d",
        "e", "l", " ", "f", "o", "r", " ", "p", "r", "e", "d", "i", "c", "t",
        "i", "o", "n">>,
      \* 'Design and implement a full-stack web application'
      <<"D", "e", "s", "i", "g", "n", " ", "a", "n", "d", " ", "i", "m", "p",
        "l", "e", "m", "e", "n", "t", " ", "a", " ", "f", "u", "l", "l", "-",
        "s", "t", "a", "c", "k", " ", "w", "e", "b", " ", "a", "p", "p", "l",
        "i", "c", "a", "t", "i", "o", "n">>,
      \* 'Research current trends in artificial intelligence and create a comprehensive analysis report.'
      <<"R", "e", "s", "e", "a", "r", "c", "h", " ", "c", "u", "r", "r", "e",
        "n", "t", " ", "t", "r", "e", "n", "d", "s", " ", "i", "n", " ", "a",
        "r", "t", "i", "f", "i", "c", "i", "a", "l", " ", "i", "n", "t", "e",
        "l", "l", "i", "g", "e", "n", "c", "e", " ", "a", "n", "d", " ", "c",
        "r", "e", "a", "t", "e", " ", "a", " ", "c", "o", "m", "p", "r", "e",
        "h", "e", "n", "s", "i", "v", "e", " ", "a", "n", "a", "l", "y", "s",
        "i", "s", " ", "r", "e", "p", "o", "r", "t", ".">>,
      \* 'Analyze it'
      <<"A", "n", "a", "l", "y", "z", "e", " ", "i", "t">>,
      \* 'my toolbox'
      <<"m", "y", " ", "t", "o", "o", "l", "b", "o", "x">>,
      \* 'a comprehensive system'
      <<"a", " ", "c", "o", "m", "p", "r", "e", "h", "e", "n", "s", "i", "v",
        "e", " ", "s", "y", "s", "t", "e", "m">>,
      \* 'query the DATABASE'
      <<"q", "u", "e", "r", "y", " ", "t", "h", "e", " ", "D", "A", "T", "A",
        "B", "A", "S", "E">>,
      \* 'a research\tpaper'
      <<"a", " ", "r", "e", "s", "e", "a", "r", "c", "h", "\t", "p", "a",
        "p", "e", "r">>,
      \* 'sum  two\tnumbers'
      <<"s", "u", "m", " ", " ", "t", "w", "o", "\t", "n", "u", "m", "b",
        "e", "r", "s">>,
      \* 'Enterprise'
      <<"E", "n", "t", "e", "r", "p", "r", "i", "s", "e">>
    >>

Filler == <<" ", "s", "o">>

RECURSIVE Padded(_, _)
Padded(phrase, n) == IF n = 0 THEN phrase ELSE Padded(phrase, n - 1) \o Filler

WordTargets ==
    {MediumWords - 1, MediumWords, MediumWords + 1,
     ComplexWords, ComplexWords + 1,
     EnterpriseWords, EnterpriseWords + 1, EnterpriseWords + MaxExtraWords}

TaskTexts ==
    {TaskPhrases[p] : p \in DOMAIN TaskPhrases}
    \cup {Padded(TaskPhrases[p], n - WordCount(TaskPhrases[p])) :
              p \in DOMAIN TaskPhrases, n \in WordTargets}

(***************************************************************************)
(* Calls on the RateLimitManager, as a single thread makes them.           *)
(***************************************************************************)
LastThree(s) == IF Len(s) > 3 THEN SubSeq(s, Len(s) - 2, Len(s)) ELSE s

RecordSuccess ==
    /\ rate_manager' = record_success(rate_manager)
    /\ last_op' = "record_success"
    /\ snap' = <<>>
    /\ run_len' = 0
    /\ UNCHANGED <<now, blocked, retryVars, classifyVars, buildVars, interrupted>>

RecordError ==
    /\ rate_manager' = record_error(rate_manager, now)
    /\ last_op' = "record_error"
    /\ snap' = LastThree(Append(snap, [rpm |-> rate_manager.current_rpm,
                                       err |-> rate_manager.error_count]))
    /\ run_len' = Min(run_len + 1, 4)
    /\ UNCHANGED <<now, blocked, retryVars, classifyVars, buildVars, interrupted>>

WaitIfNeeded ==
    \E jitter \in 1..3 :
        \E w \in {wait_if_needed(rate_manager, now, jitter)} :
            /\ w.now <= MaxTime
            /\ rate_manager' = w.rm
            /\ now' = w.now
            /\ blocked' = (w.wait > 0)
            /\ last_op' = "wait_if_needed"
            /\ UNCHANGED <<snap, run_len, retryVars, classifyVars, buildVars, runVars>>

\* The clock advances between calls.
Tick ==
    \E d \in {TickSeconds} :
        /\ now + d <= MaxTime
        /\ now' = now + d
        /\ UNCHANGED <<rate_manager, ghostVars, retryVars, classifyVars, buildVars, runVars>>

NoResult == [kind |-> "none", value |-> "none"]

NoChat == [kind |-> "none", text |-> <<>>, raised |-> "none"]

\* main has constructed the RateLimitManager; no execute_with_retry invocation
\* is in progress; the task text is not read yet.
Init ==
    /\ \E is_paid_tier \in BOOLEAN : rate_manager = MainRateManager(is_paid_tier)
    /\ now = 0
    /\ last_op = "__init__"
    /\ snap = <<>>
    /\ run_len = 0
    /\ blocked = FALSE
    /\ calls = 0
    /\ pc = "idle"
    /\ attempt = 0
    /\ retry_delay = 0
    /\ history = <<>>
    /\ sleeps = <<>>
    /\ result = NoResult
    /\ n_record_success = 0
    /\ n_record_error = 0
    /\ func_calls = 0
    /\ task_description = <<>>
    /\ complexity = "none"
    /\ analyses = 0
    /\ main_pc = "input"
    /\ chat = NoChat
    /\ agent_list = <<>>
    /\ base_agents = <<>>
    /\ max_rounds = 0
    /\ main_error = "none"
    /\ interrupted = "none"
    /\ errors_since_decrease = 0

\* Any finite sequence of record_success and record_error calls.
CountersRecordSuccess ==
    /\ rate_manager.success_count < MaxSuccess
    /\ RecordSuccess
    /\ UNCHANGED <<calls, errors_since_decrease>>

CountersRecordError ==
    /\ RecordError
    /\ errors_since_decrease' =
           IF rate_manager'.current_rpm < rate_manager.current_rpm THEN 0
           ELSE Min(errors_since_decrease + 1, ErrorsPerDecrease)
    /\ UNCHANGED calls

NextCounters == CountersRecordSuccess \/ CountersRecordError

SpecCounters == Init /\ [][NextCounters]_vars

\* Any sequence of wait_if_needed, record_success and record_error calls of
\* one thread, the clock advancing between them.
LimiterWaitIfNeeded ==
    /\ calls < MaxCalls
    /\ WaitIfNeeded
    /\ calls' = calls + 1

LimiterRecordSuccess ==
    /\ calls < MaxCalls
    /\ RecordSuccess
    /\ calls' = calls + 1
    /\ UNCHANGED errors_since_decrease

LimiterRecordError ==
    /\ calls < MaxCalls
    /\ RecordError
    /\ calls' = calls + 1
    /\ UNCHANGED errors_since_decrease

NextLimiter ==
    \/ LimiterWaitIfNeeded
    \/ LimiterRecordSuccess
    \/ LimiterRecordError
    \/ Tick

SpecLimiter == Init /\ [][NextLimiter]_vars

\* The same calls, until Ctrl-C raises KeyboardInterrupt in a time.sleep.
\* except Exception does not catch it; main's except KeyboardInterrupt ends
\* the run.
InterruptibleWaitIfNeeded == interrupted = "none" /\ LimiterWaitIfNeeded

InterruptibleRecordSuccess == interrupted = "none" /\ LimiterRecordSuccess

InterruptibleRecordError == interrupted = "none" /\ LimiterRecordError

InterruptibleTick == interrupted = "none" /\ Tick

\* KeyboardInterrupt in the time.sleep(wait_time) of wait_if_needed
InterruptWaitIfNeeded ==
    /\ interrupted = "none"
    /\ calls < MaxCalls
    /\ ~can_make_request(rate_manager, now).result
    /\ rate_manager' = wait_if_needed_interrupted(rate_manager, now)
    /\ interrupted' = "wait_if_needed"
    /\ calls' = calls + 1
    /\ UNCHANGED <<now, last_op, snap, run_len, blocked, errors_since_decrease,
                   retryVars, classifyVars, buildVars>>

\* KeyboardInterrupt in a time.sleep of execute_with_retry: the backoff sleep
\* that follows record_error, or the 5-second sleep that follows the failed
\* call wait_if_needed admitted
InterruptBackoff ==
    /\ interrupted = "none"
    /\ last_op \in {"record_error", "wait_if_needed"}
    /\ interrupted' = "backoff"
    /\ UNCHANGED <<limiterVars, errors_since_decrease, retryVars, classifyVars,
                   buildVars>>

NextInterrupt ==
    \/ InterruptibleWaitIfNeeded
    \/ InterruptibleRecordSuccess
    \/ InterruptibleRecordError
    \/ InterruptibleTick
    \/ InterruptWaitIfNeeded
    \/ InterruptBackoff

SpecInterrupt == Init /\ [][NextInterrupt]_vars

(***************************************************************************)
(* execute_with_retry(func), one step per position of its loop:            *)
(*   "idle"  no invocation in progress                                     *)
(*   "admit" at the top of an iteration, before wait_if_needed             *)
(*   "call"  admitted, about to call func                                  *)
(*   "sleep" in the except block, about to time.sleep(retry_delay)         *)
(*   "returned", "raised"  the invocation is over                          *)
(***************************************************************************)
\* llm_config.execute_with_retry(func) is called.
Invoke ==
    /\ pc \in {"idle", "returned", "raised"}
    /\ func_calls + max_retries <= MaxFuncCalls   \* it can run to its end
    /\ pc' = "admit"
    /\ attempt' = 0
    /\ retry_delay' = 0
    /\ history' = <<>>
    /\ sleeps' = <<>>
    /\ result' = NoResult
    /\ n_record_success' = 0
    /\ n_record_error' = 0
    /\ UNCHANGED <<rate_manager, now, func_calls, ghostVars, classifyVars, buildVars, runVars>>

\* self.rate_manager.wait_if_needed()
Admit ==
    /\ pc = "admit"
    /\ \E jitter \in 1..3 :
           \E w \in {wait_if_needed(rate_manager, now, jitter)} :
               /\ rate_manager' = w.rm
               /\ now' = w.now
    /\ pc' = "call"
    /\ UNCHANGED <<attempt, retry_delay, history, sleeps, result,
                   n_record_success, n_record_error, func_calls, ghostVars,
                   classifyVars, buildVars, runVars>>

\* result = func(...) returns: record_success(), return result
CallReturns ==
    /\ pc = "call"
    /\ \E v \in CallResults :
           /\ history' = Append(history, [ok |-> TRUE, value |-> v])
           /\ result' = [kind |-> "return", value |-> v]
    /\ rate_manager' = record_success(rate_manager)
    /\ n_record_success' = n_record_success + 1
    /\ pc' = "returned"
    /\ func_calls' = func_calls + 1
    /\ UNCHANGED <<now, attempt, retry_delay, sleeps, n_record_error, ghostVars,
                   classifyVars, buildVars, runVars>>

\* result = func(...) raises e: the except block up to its sleep or raise
CallRaises ==
    /\ pc = "call"
    /\ \E e \in CallErrors : \E rand \in RandintDrawn(str(e)) :
           \E h \in {handle_exception(rate_manager, now, attempt, e, rand)} :
               /\ history' = Append(history, [ok |-> FALSE, value |-> e])
               /\ rate_manager' = h.rm
               /\ n_record_error' = n_record_error + h.recorded
               /\ retry_delay' = h.retry_delay
               /\ IF h.next = "sleep"
                  THEN pc' = "sleep" /\ result' = result
                  ELSE /\ pc' = "raised"
                       /\ result' = [kind |-> "raise", value |-> h.raised]
    /\ func_calls' = func_calls + 1
    /\ UNCHANGED <<now, attempt, sleeps, n_record_success, ghostVars,
                   classifyVars, buildVars, runVars>>

\* time.sleep(retry_delay); continue -- and, were the loop to run out,
\* the return None after it
Sleep ==
    /\ pc = "sleep"
    /\ now' = now + retry_delay
    /\ sleeps' = Append(sleeps, retry_delay)
    /\ attempt' = attempt + 1
    /\ IF attempt + 1 < max_retries
       THEN pc' = "admit" /\ result' = result
       ELSE pc' = "returned" /\ result' = [kind |-> "return", value |-> "None"]
    /\ UNCHANGED <<rate_manager, retry_delay, history, n_record_success,
                   n_record_error, func_calls, ghostVars, classifyVars, buildVars, runVars>>

NextRetry == Invoke \/ Admit \/ CallReturns \/ CallRaises \/ Sleep

SpecRetry == Init /\ [][NextRetry]_vars

(***************************************************************************)
(* The task text is read and classified.                                   *)
(***************************************************************************)
\* building_task = input(...).strip()
ReadTask ==
    /\ task_description = <<>>
    /\ complexity = "none"
    /\ task_description' \in TaskTexts
    /\ UNCHANGED <<complexity, analyses, limiterVars, retryVars, buildVars, runVars>>

\* complexity = TaskComplexityAnalyzer.analyze_complexity(task_description)
Analyze ==
    /\ task_description # <<>>
    /\ analyses < MaxAnalyses
    /\ complexity' = analyze_complexity(task_description)
    /\ analyses' = analyses + 1
    /\ UNCHANGED <<task_description, limiterVars, retryVars, buildVars, runVars>>

NextClassify == ReadTask \/ Analyze

SpecClassify == Init /\ [][NextClassify]_vars

(***************************************************************************)
(* Agents.  An autogen agent is a record of the constructor arguments the  *)
(* program reads back; made_by records the builder method that constructed *)
(* it.  A ResilientAgent is a record with the one field agent, so          *)
(* hasattr(x, 'agent') is "agent" \in DOMAIN x.                            *)
(***************************************************************************)
\* autogen.AssistantAgent(name=..., system_message=..., llm_config=...)
AssistantAgent(name, method) ==
    [name |-> name, class |-> "AssistantAgent", code_execution |-> FALSE,
     made_by |-> method]

\* autogen.UserProxyAgent(name=..., code_execution_config={...}, ...)
UserProxyAgent(name, method) ==
    [name |-> name, class |-> "UserProxyAgent", code_execution |-> TRUE,
     made_by |-> method]

\* ResilientAgent(agent, llm_config)
ResilientAgent(agent) == [agent |-> agent]

\* hasattr(x, 'agent')
hasattr_agent(x) == "agent" \in DOMAIN x

\* x.agent if hasattr(x, 'agent') else x
Unwrapped(x) == IF hasattr_agent(x) THEN x.agent ELSE x

(***************************************************************************)
(* JSON.  A JSON object is a record of its keys.  A text is the sequence   *)
(* of its characters, with a run of characters that holds no brace,        *)
(* bracket, quote, colon or comma written as one element.                  *)
(***************************************************************************)
\* The agent specifications the model's reply may hold.
SpecCoder ==
    [name |-> "Coder", role |-> "writes code",
     system_message |-> "You write code.", needs_coding |-> TRUE]

SpecWriter ==
    [name |-> "Writer", role |-> "writes prose",
     system_message |-> "You write prose."]

SpecAnalyst ==
    [name |-> "Analyst", role |-> "analyses data",
     system_message |-> "You analyse data.", needs_coding |-> FALSE]

\* the name of SpecWriter again
SpecWriterAgain ==
    [name |-> "Writer", role |-> "edits prose",
     system_message |-> "You edit prose.", needs_coding |-> FALSE]

\* the name of a coordination agent
SpecManager ==
    [name |-> "ProjectManager", role |-> "manages",
     system_message |-> "You manage the project."]

\* no 'name'
SpecNoName ==
    [role |-> "tests", system_message |-> "You test.", needs_coding |-> TRUE]

\* no 'role'
SpecNoRole ==
    [name |-> "Reviewer", system_message |-> "You review."]

SpecNamed(name) ==
    [name |-> name, role |-> "helps", system_message |-> "You help."]

SpecKeys == <<"name", "role", "system_message", "needs_coding">>

Quoted(text) == <<"\"", text, "\"">>

RECURSIVE Joined(_)
\* ",".join(parts), each part and the result a text
Joined(parts) ==
    IF parts = <<>> THEN <<>>
    ELSE IF Len(parts) = 1 THEN parts[1]
    ELSE parts[1] \o <<",">> \o Joined(Tail(parts))

\* json.dumps of one member of an agent specification
dumps_member(spec, key) ==
    Quoted(key) \o <<":">> \o
        (IF key = "needs_coding"
         THEN (IF spec[key] THEN <<"true">> ELSE <<"false">>)
         ELSE Quoted(spec[key]))

\* json.dumps of an agent specification
dumps_spec(spec) ==
    LET keys == SelectSeq(SpecKeys, LAMBDA k : k \in DOMAIN spec)
    IN  <<"{">> \o Joined([i \in 1..Len(keys) |-> dumps_member(spec, keys[i])])
            \o <<"}">>

\* json.dumps of a document: {"agents": [...]} or {"notes": "..."}
dumps(doc) ==
    IF "agents" \in DOMAIN doc
    THEN <<"{">> \o Quoted("agents") \o <<":", "[">>
             \o Joined([i \in 1..Len(doc.agents) |-> dumps_spec(doc.agents[i])])
             \o <<"]", "}">>
    ELSE <<"{">> \o Quoted("notes") \o <<":">> \o Quoted(doc.notes) \o <<"}">>

\* The specifications of which a reply holds any two or fewer.
PairSpecs ==
    {SpecCoder, SpecWriter, SpecAnalyst, SpecWriterAgain, SpecManager,
     SpecNoName, SpecNoRole}

AgentNames ==
    <<"Planner", "Researcher", "Designer", "Builder", "Tester", "Editor",
      "Librarian", "Auditor", "Translator", "Operator">>

\* n specifications, well-formed and with n different names
ManySpecs(n) == [i \in 1..n |-> SpecNamed(AgentNames[i])]

\* The values of 'agents' in the model's reply.
SpecLists ==
    {<<>>}
    \cup {<<a>> : a \in PairSpecs}
    \cup {<<a, b>> : a \in PairSpecs, b \in PairSpecs}
    \cup {<<SpecCoder, SpecNoName, SpecWriter>>,
          <<SpecCoder, SpecNoRole, SpecWriter>>,
          <<SpecCoder, SpecWriter, SpecManager>>}
    \cup {ManySpecs(n) : n \in 3..MaxSpecs}

\* The JSON documents of the model: with 'agents', and without.
JsonDocuments ==
    {[agents |-> specs] : specs \in SpecLists} \cup {[notes |-> "none"]}

\* The replies of the TaskAnalyzer that hold no JSON document.
BrokenReplies ==
    { <<"I cannot design a team for this task.">>,
      <<"Here is the team: ", "{", "\"", "agents", "\"", ":", "[">>,
      <<"]", "}", " That is the team.">>,
      <<"}", " and ", "{">>,
      <<"{", "agents: Coder, Writer", "}">>,
      <<"{", "\"", "agents", "\"", ":", "[", "]", ",", "}">>,
      dumps([agents |-> <<SpecCoder>>]) \o <<" or ">>
          \o dumps([agents |-> <<SpecWriter>>]) }

\* The replies of the TaskAnalyzer: a document alone, a document with text
\* around it, and the replies that hold no document.
Replies ==
    {dumps(doc) : doc \in JsonDocuments}
    \cup {<<"Here is the team: ">> \o dumps(doc) \o <<" Let me know.">> :
              doc \in JsonDocuments}
    \cup BrokenReplies

\* What execute_with_retry raises: its own two exceptions, and the error of
\* the wrapped call it re-raises.
RetryErrors == {"QuotaExceeded", "RetryExhausted", "ErrReset", "ErrTimeout"}

\* user_proxy.initiate_chat(analyzer, ...) returns with the analyzer's reply
\* as the last message, or raises.
ChatOutcomes ==
    {[kind |-> "reply", text |-> reply, raised |-> "none"] : reply \in Replies}
    \cup {[kind |-> "raise", text |-> <<>>, raised |-> e] : e \in RetryErrors}

\* str.find(c): the 0-based index of the first c, -1 if there is none
find(text, c) ==
    IF \E i \in 1..Len(text) : text[i] = c
    THEN (CHOOSE i \in 1..Len(text) :
              text[i] = c /\ \A j \in 1..(i - 1) : text[j] # c) - 1
    ELSE -1

\* str.rfind(c): the 0-based index of the last c, -1 if there is none
rfind(text, c) ==
    IF \E i \in 1..Len(text) : text[i] = c
    THEN (CHOOSE i \in 1..Len(text) :
              text[i] = c /\ \A j \in (i + 1)..Len(text) : text[j] # c) - 1
    ELSE -1

\* text[start:end], for start >= 0 and end >= 0
Slice(text, start, end) == SubSeq(text, start + 1, Min(end, Len(text)))

\* json.loads(text): the document whose JSON text this is, JSONDecodeError
\* if it is the text of none
json_loads(text) ==
    LET documents == {doc \in JsonDocuments : dumps(doc) = text}
    IN  IF documents # {}
        THEN [raised |-> "none", value |-> CHOOSE doc \in documents : TRUE]
        ELSE [raised |-> "JSONDecodeError", value |-> [notes |-> "none"]]

(***************************************************************************)
(* class EnhancedAutoAgentBuilder.  A method returns the exception it      *)
(* raises ("none" if it returns) and the list it returns.                  *)
(***************************************************************************)
EnterpriseMaxAgents == 7
ComplexMaxAgents == 5
MediumMaxAgents == 3
SimpleMaxAgents == 2

\* max_agents as _build_complex_agents and _build_simple_agents set it
max_agents(tier) ==
    CASE tier = "enterprise" -> EnterpriseMaxAgents
      [] tier = "complex"    -> ComplexMaxAgents
      [] tier = "medium"     -> MediumMaxAgents
      [] tier = "simple"     -> SimpleMaxAgents

\* _get_agent_specifications, were it to return an empty document where it
\* raises ValueError or json.loads raises
_get_agent_specifications_lenient(chat_) ==
    IF chat_.kind = "raise"
    THEN [raised |-> chat_.raised, value |-> [notes |-> "none"]]
    ELSE LET last_message == chat_.text
             json_start == find(last_message, "{")
             json_end == rfind(last_message, "}") + 1
             loaded == json_loads(Slice(last_message, json_start, json_end))
         IN  IF json_start # -1 /\ json_end # -1 /\ loaded.raised = "none"
             THEN loaded
             ELSE [raised |-> "none", value |-> [notes |-> "none"]]

\* _get_agent_specifications, from the return of initiate_chat on
_get_agent_specifications(chat_) ==
    IF chat_.kind = "raise"
    THEN [raised |-> chat_.raised, value |-> [notes |-> "none"]]
    ELSE LET last_message == chat_.text
             json_start == find(last_message, "{")
             json_end == rfind(last_message, "}") + 1
         IN  IF json_start # -1 /\ json_end # -1
             THEN json_loads(Slice(last_message, json_start, json_end))
             ELSE [raised |-> "ValueError", value |-> [notes |-> "none"]]

\* agent_specs.get('agents', [])
get_agents(agent_specs) ==
    IF "agents" \in DOMAIN agent_specs THEN agent_specs.agents ELSE <<>>

\* spec.get('needs_coding', False)
get_needs_coding(spec) ==
    IF "needs_coding" \in DOMAIN spec THEN spec.needs_coding ELSE FALSE

\* _create_agent_from_spec: agents is <<agent>>, or <<>> where it returns
\* None.  enhanced_message reads spec['role'] and spec['system_message']
\* before the try block; spec['name'] is read inside it.
_create_agent_from_spec(spec) ==
    IF "role" \notin DOMAIN spec \/ "system_message" \notin DOMAIN spec
    THEN [raised |-> "KeyError", agents |-> <<>>]
    ELSE IF "name" \notin DOMAIN spec
    THEN [raised |-> "none", agents |-> <<>>]
    ELSE IF get_needs_coding(spec)
    THEN [raised |-> "none",
          agents |-> <<UserProxyAgent(spec.name, "_create_agent_from_spec")>>]
    ELSE [raised |-> "none",
          agents |-> <<ResilientAgent(
                          AssistantAgent(spec.name, "_create_agent_from_spec"))>>]

RECURSIVE AgentsFromSpecs(_, _)
\* for spec in specs: agent = self._create_agent_from_spec(spec, ...);
\*                    if agent: agents.append(agent)
\* continued from the list agents
AgentsFromSpecs(specs, agents) ==
    IF specs = <<>> THEN [raised |-> "none", agents |-> agents]
    ELSE LET made == _create_agent_from_spec(Head(specs))
         IN  IF made.raised # "none"
             THEN [raised |-> made.raised, agents |-> agents]
             ELSE AgentsFromSpecs(Tail(specs), agents \o made.agents)

_create_coordination_agents ==
    << ResilientAgent(AssistantAgent("ProjectManager",
                                     "_create_coordination_agents")),
       ResilientAgent(AssistantAgent("QualityAssurance",
                                     "_create_coordination_agents")) >>

_create_fallback_complex_agents ==
    << ResilientAgent(AssistantAgent("ResearchSpecialist",
                                     "_create_fallback_complex_agents")),
       UserProxyAgent("TechnicalImplementer", "_create_fallback_complex_agents"),
       ResilientAgent(AssistantAgent("AnalysisExpert",
                                     "_create_fallback_complex_agents")) >>

_create_fallback_simple_agents ==
    << ResilientAgent(AssistantAgent("PrimaryAgent",
                                     "_create_fallback_simple_agents")) >>

\* The try block of both _build methods: the specifications, then the loop.
DesignedAgents(chat_) ==
    LET agent_specs == _get_agent_specifications(chat_)
    IN  IF agent_specs.raised # "none"
        THEN [raised |-> agent_specs.raised, agents |-> <<>>]
        ELSE AgentsFromSpecs(get_agents(agent_specs.value), <<>>)

\* _build_complex_agents, were it to add the coordination agents to the
\* designed agents only
_build_complex_agents_designed_only(tier, chat_) ==
    LET designed == DesignedAgents(chat_)
    IN  [raised |-> "none",
         agents |-> IF designed.raised # "none"
                    THEN _create_fallback_complex_agents
                    ELSE IF tier = "enterprise"
                    THEN designed.agents \o _create_coordination_agents
                    ELSE designed.agents]

\* _build_complex_agents, were its except block to extend the agents made
\* so far with the fallback agents
_build_complex_agents_extended(tier, chat_) ==
    LET designed == DesignedAgents(chat_)
        agents == IF designed.raised = "none" THEN designed.agents
                  ELSE designed.agents \o _create_fallback_complex_agents
    IN  [raised |-> "none",
         agents |-> IF tier = "enterprise"
                    THEN agents \o _create_coordination_agents
                    ELSE agents]

_build_complex_agents(tier, chat_) ==
    LET designed == DesignedAgents(chat_)
        agents == IF designed.raised = "none" THEN designed.agents
                  ELSE _create_fallback_complex_agents
    IN  [raised |-> "none",
         agents |-> IF tier = "enterprise"
                    THEN agents \o _create_coordination_agents
                    ELSE agents]

_build_simple_agents(tier, chat_) ==
    LET designed == DesignedAgents(chat_)
    IN  [raised |-> "none",
         agents |-> IF designed.raised = "none" THEN designed.agents
                    ELSE _create_fallback_simple_agents]

analyze_task_and_build_agents(task, chat_) ==
    LET tier == analyze_complexity(task)
    IN  IF tier \in {"enterprise", "complex"}
        THEN _build_complex_agents(tier, chat_)
        ELSE _build_simple_agents(tier, chat_)

(***************************************************************************)
(* main, one step per stage:                                               *)
(*   "input"  before the task text is read                                 *)
(*   "build"  before builder.analyze_task_and_build_agents(building_task)  *)
(*   "team"   the agent list is there, before the GroupChat is created     *)
(*   "chat"   before first_agent.initiate_chat(manager, ...)               *)
(*   "done"   the try block ran to its end                                 *)
(*   "failed" the except Exception block ran                               *)
(***************************************************************************)
RoundsPerAgent == 4
MinRounds == 10
MaxRounds == 30

\* max_rounds, were the 10 added to the product
max_rounds_of_added(n) == Min(MaxRounds, MinRounds + n * RoundsPerAgent)

\* max_rounds = min(30, max(10, len(agent_list) * 4))
max_rounds_of(n) == Min(MaxRounds, Max(MinRounds, n * RoundsPerAgent))

\* base_agents: agent.agent for the agents that have one, else the agent
base_agents_of(agents) == [i \in 1..Len(agents) |-> Unwrapped(agents[i])]

\* building_task = input(...).strip(), or the sample task
MainReadTask ==
    /\ main_pc = "input"
    /\ \E i \in 1..Len(TaskPhrases) : task_description' = TaskPhrases[i]
    /\ main_pc' = "build"
    /\ UNCHANGED <<complexity, analyses, chat, agent_list, base_agents,
                   max_rounds, main_error, limiterVars, retryVars, runVars>>

\* agent_list = builder.analyze_task_and_build_agents(building_task)
MainBuildAgents ==
    /\ main_pc = "build"
    /\ \E outcome \in ChatOutcomes :
           \E built \in {analyze_task_and_build_agents(task_description, outcome)} :
               /\ chat' = outcome
               /\ IF built.raised = "none"
                  THEN /\ agent_list' = built.agents
                       /\ main_pc' = "team"
                       /\ main_error' = main_error
                  ELSE /\ agent_list' = agent_list
                       /\ main_pc' = "failed"
                       /\ main_error' = built.raised
    /\ complexity' = analyze_complexity(task_description)
    /\ UNCHANGED <<task_description, analyses, base_agents, max_rounds,
                   limiterVars, retryVars, runVars>>

\* max_rounds, base_agents, the GroupChat and its manager, and
\* first_agent = base_agents[0]
MainGroupChat ==
    /\ main_pc = "team"
    /\ max_rounds' = max_rounds_of(Len(agent_list))
    /\ base_agents' = base_agents_of(agent_list)
    /\ IF agent_list = <<>>
       THEN main_pc' = "failed" /\ main_error' = "IndexError"
       ELSE main_pc' = "chat" /\ main_error' = main_error
    /\ UNCHANGED <<chat, agent_list, classifyVars, limiterVars, retryVars, runVars>>

\* first_agent.initiate_chat(manager, ...) returns, or raises
MainConversation ==
    /\ main_pc = "chat"
    /\ \E e \in {"none"} \cup RetryErrors :
           /\ main_error' = e
           /\ main_pc' = IF e = "none" THEN "done" ELSE "failed"
    /\ UNCHANGED <<chat, agent_list, base_agents, max_rounds, classifyVars,
                   limiterVars, retryVars, runVars>>

NextBuild ==
    MainReadTask \/ MainBuildAgents \/ MainGroupChat \/ MainConversation

SpecBuild == Init /\ [][NextBuild]_vars

(***************************************************************************)
(* Properties of execute_with_retry.  They read the markers off the text   *)
(* of what func raised, not off the branch the except block took.          *)
(***************************************************************************)
HasThrottleMarker(e) ==
    Contains(str(e), Marker429) \/ Contains(str(e), MarkerResourceExhausted)

HasQuotaMarker(e) == Contains(str(e), MarkerQuotaExceeded)

\* func raised on its i-th call of this invocation
RaisedAt(i) == i \in DOMAIN history /\ ~history[i].ok

\* func has raised on every call so far, each time a throttling-marker error
AlwaysThrottled ==
    \A i \in DOMAIN history : RaisedAt(i) /\ HasThrottleMarker(history[i].value)

\* func has raised on every call so far, each time a quota-marker error
AlwaysQuota ==
    \A i \in DOMAIN history : RaisedAt(i) /\ HasQuotaMarker(history[i].value)

\* func has raised on every call so far, each time with neither marker
AlwaysOther ==
    \A i \in DOMAIN history :
        /\ RaisedAt(i)
        /\ ~HasThrottleMarker(history[i].value)
        /\ ~HasQuotaMarker(history[i].value)

InProgress == pc \in {"admit", "call", "sleep"}

\* a sleep follows every failed attempt so far; the last one may be pending
SleptAfterEach ==
    Len(sleeps) = IF pc = "sleep" THEN Len(history) - 1 ELSE Len(history)

\* C5: when func raises a quota-marker error on every call, the invocation
\* fails with the quota-exceeded error after exactly one call of func and
\* without a backoff sleep.
C5_QuotaFailsAtOnce ==
    (history # <<>> /\ AlwaysQuota) =>
        /\ Len(history) = 1
        /\ pc = "raised"
        /\ result = [kind |-> "raise", value |-> "QuotaExceeded"]
        /\ sleeps = <<>>

\* C6: whenever the error func raised last carries the quota marker, whatever
\* else its text carries, the failure is classified QuotaExceeded (the
\* invocation has raised the quota-exceeded error) and the call is not
\* retried.
C6_QuotaNeverRetried ==
    (history # <<>> /\ RaisedAt(Len(history))
        /\ HasQuotaMarker(history[Len(history)].value)) =>
        /\ pc = "raised"
        /\ result.value = "QuotaExceeded"

\* C7: when func raises a throttling-marker error on its first 2 calls and
\* succeeds on the 3rd, the invocation goes on to the 3rd call, makes no 4th,
\* returns what the 3rd call returned, and has called record_success exactly
\* once and record_error exactly twice.
C7_TwoThrottlesThenSuccess ==
    (/\ Len(history) >= 2
     /\ RaisedAt(1) /\ HasThrottleMarker(history[1].value)
     /\ RaisedAt(2) /\ HasThrottleMarker(history[2].value)) =>
        /\ Len(history) = 2 =>
              /\ InProgress
              /\ n_record_error = 2
              /\ n_record_success = 0
        /\ (Len(history) >= 3 /\ history[3].ok) =>
              /\ Len(history) = 3
              /\ pc = "returned"
              /\ result = [kind |-> "return", value |-> history[3].value]
              /\ n_record_success = 1
              /\ n_record_error = 2

\* The second invocation of a run returned the 3rd call's result after two
\* throttling errors.
C7_Witness ==
    /\ pc = "returned"
    /\ Len(history) = 3
    /\ RaisedAt(1) /\ HasThrottleMarker(history[1].value)
    /\ RaisedAt(2) /\ HasThrottleMarker(history[2].value)
    /\ history[3].ok
    /\ rate_manager.success_count = 2

\* C8: when func raises a throttling-marker error on every call, the
\* invocation calls func exactly 5 times, calls record_error once per call,
\* sleeps a backoff after each of the first 4 failures and not after the 5th,
\* and then raises the RetryExhausted error, not the error func raised.
C8_ThrottledFiveTimes ==
    AlwaysThrottled =>
        /\ Len(history) <= max_retries
        /\ n_record_error = Len(history)
        /\ \A i \in DOMAIN sleeps : sleeps[i] > 0
        /\ Len(history) < max_retries =>
              /\ pc = "idle" \/ InProgress
              /\ history # <<>> => SleptAfterEach
        /\ Len(history) = max_retries =>
              /\ pc = "raised"
              /\ result = [kind |-> "raise", value |-> "RetryExhausted"]
              /\ str(result.value) = TextRetryExhausted
              /\ result.value # history[max_retries].value
              /\ Len(sleeps) = max_retries - 1

\* Five throttling errors in a row, among them one that carries the quota
\* marker too, ended the invocation.
C8_Witness ==
    /\ Len(history) = max_retries
    /\ AlwaysThrottled
    /\ pc = "raised"
    /\ \E i \in DOMAIN history : HasQuotaMarker(history[i].value)

IsTransient(e) == ~HasThrottleMarker(e) /\ ~HasQuotaMarker(e)

\* The failures with neither marker among the first n calls of this invocation.
TransientAmong(n) ==
    Cardinality({i \in 1..n : RaisedAt(i) /\ IsTransient(history[i].value)})

\* C21: within one invocation, when func raises an error with neither marker
\* and fewer than 2 such failures came before it in the invocation, the call
\* is retried after a 5-second sleep, however many throttling-marker failures
\* came before it.
C21_TransientRetriedTwice ==
    (/\ pc \in {"sleep", "raised"}
     /\ history # <<>>
     /\ RaisedAt(Len(history))
     /\ IsTransient(history[Len(history)].value)
     /\ TransientAmong(Len(history) - 1) < 2)
    =>
        /\ pc = "sleep"
        /\ retry_delay = 5

\* The seconds an error's text suggests to wait, -1 if it suggests none:
\* TextExhaustedDelay says 'retryDelay': '7s', no other text has a retryDelay.
SuggestedDelay(e) == IF e = "ErrExhaustedDelay" THEN 7 ELSE -1

\* C22: the sleep after a throttling-marker failure of the call with 0-based
\* index i < 4 is 30 * 2^i seconds (30, 60, 120, 240) when the error text
\* suggests no delay, and the suggested delay plus an integer in 5..10 when it
\* suggests one, also where that is less than 30 * 2^i.
C22_BackoffSleep ==
    \A k \in DOMAIN sleeps :
        (RaisedAt(k) /\ HasThrottleMarker(history[k].value)) =>
            /\ k - 1 < 4
            /\ IF SuggestedDelay(history[k].value) = -1
               THEN sleeps[k] = CASE k = 1 -> 30 [] k = 2 -> 60
                                  [] k = 3 -> 120 [] k = 4 -> 240
               ELSE sleeps[k] - SuggestedDelay(history[k].value) \in 5..10

\* Four sleeps: 30 s, then 7 + 10 s and 7 + 5 s where 60 s and 120 s would
\* have been the exponential values, then 240 s.
C22_Witness ==
    /\ Len(sleeps) = 4
    /\ AlwaysThrottled
    /\ sleeps = <<30, 17, 12, 240>>

\* How far an invocation has come: three positions per iteration of the loop.
Rank ==
    IF InProgress
    THEN 3 * attempt + (CASE pc = "admit" -> 0 [] pc = "call" -> 1 [] pc = "sleep" -> 2)
    ELSE 3 * max_retries

\* C24: an invocation of execute_with_retry calls func at most 5 times whatever
\* the errors func raises; every step of an invocation brings it closer to its
\* end and no position of the loop is stuck; it ends by returning the value
\* func returned or by raising, never by the return None after the loop.
C24_InvocationEnds ==
    /\ [](/\ Len(history) <= 5
          /\ InProgress => ENABLED NextRetry
          /\ pc = "returned" =>
                 /\ history # <<>>
                 /\ history[Len(history)].ok
                 /\ result = [kind |-> "return",
                              value |-> history[Len(history)].value]
                 /\ result.value \in CallResults
          /\ pc = "raised" => result.kind = "raise"
          /\ result.value # "None")
    /\ [][InProgress => (Rank' > Rank /\ Rank' <= 3 * max_retries)]_vars

\* Five failed calls: errors with neither marker, a throttling error that
\* carries the quota marker too, and a last throttling error.
C24_Witness ==
    /\ pc = "raised"
    /\ Len(history) = 5
    /\ \E i \in DOMAIN history : IsTransient(history[i].value)
    /\ \E i \in DOMAIN history : HasQuotaMarker(history[i].value)
    /\ HasThrottleMarker(history[5].value)

(***************************************************************************)
(* Properties of the RateLimitManager.                                     *)
(***************************************************************************)
\* The admitted calls whose timestamps lie within the trailing 60 seconds.
WindowCount ==
    Cardinality({i \in DOMAIN rate_manager.request_times :
                    now - rate_manager.request_times[i] < WindowSeconds})

\* C1: whenever wait_if_needed has admitted a call, at once or after its
\* blocking wait, and also after the ceiling was lowered, the number of
\* admitted calls with a timestamp within the trailing 60 seconds is at most
\* the current_rpm in force.
C1_AdmittedWithinCeiling ==
    last_op = "wait_if_needed" => WindowCount <= rate_manager.current_rpm

\* C2: min_rpm <= current_rpm <= max_rpm in every state a sequence of
\* record_success and record_error calls reaches from main's manager
\* (min 3; max 15 on the free tier, 60 on the paid tier).
C2_RpmWithinBounds ==
    /\ rate_manager.min_rpm = 3
    /\ rate_manager.max_rpm = IF rate_manager.is_paid_tier THEN 60 ELSE 15
    /\ rate_manager.min_rpm <= rate_manager.current_rpm
    /\ rate_manager.current_rpm <= rate_manager.max_rpm

\* A record_error call lowered the ceiling from 4 and the floor held it at 3.
C2_Witness ==
    /\ last_op = "record_error"
    /\ rate_manager.error_count = 0
    /\ snap[Len(snap)].rpm = rate_manager.min_rpm + 1
    /\ rate_manager.current_rpm = rate_manager.min_rpm

\* C3 as stated: after exactly 3 consecutive record_error calls with no
\* record_success in between (here: the 3 calls that follow a record_success
\* or the construction), current_rpm is max(old current_rpm - 2, min_rpm)
\* and error_count is 0.
C3_ThreeErrorsZeroCounter ==
    run_len = 3 =>
        /\ rate_manager.current_rpm = Max(snap[1].rpm - 2, rate_manager.min_rpm)
        /\ rate_manager.error_count = 0

\* C3 amended: after 3 consecutive record_error calls with no record_success
\* in between, from any reachable state, current_rpm is
\* max(old current_rpm - 2, min_rpm) and error_count is what it was before
\* the three calls (0 exactly when it was 0 before them).
C3_ThreeErrorsSameCounter ==
    Len(snap) = 3 =>
        /\ rate_manager.current_rpm = Max(snap[1].rpm - 2, rate_manager.min_rpm)
        /\ rate_manager.error_count = snap[1].err

\* Three consecutive errors that started with error_count = 1 (left by an
\* earlier success) lowered the ceiling by 2.
C3_Witness ==
    /\ run_len = 3
    /\ snap[1].err = 1
    /\ rate_manager.current_rpm = snap[1].rpm - 2
    /\ rate_manager.error_count = 1

\* C4: a record_success call raises current_rpm by exactly 1 if and only if
\* it makes success_count a multiple of 10 while current_rpm < max_rpm, and
\* leaves current_rpm unchanged otherwise; record_error never changes
\* success_count.
C4_TenthSuccessRaises ==
    [][ /\ last_op' = "record_success" =>
            /\ rate_manager'.success_count = rate_manager.success_count + 1
            /\ rate_manager'.current_rpm =
                   IF /\ rate_manager'.success_count % 10 = 0
                      /\ rate_manager.current_rpm < rate_manager.max_rpm
                   THEN rate_manager.current_rpm + 1
                   ELSE rate_manager.current_rpm
        /\ last_op' = "record_error" =>
            rate_manager'.success_count = rate_manager.success_count
      ]_vars

\* The 20th success, with errors in between, raised the ceiling a second
\* time.
C4_Witness ==
    /\ last_op = "record_success"
    /\ rate_manager.success_count = 20
    /\ rate_manager.error_count > 0
    /\ rate_manager.current_rpm = rate_manager.base_rpm + 2

(***************************************************************************)
(* Properties of analyze_complexity.                                       *)
(***************************************************************************)
TierRank(tier) ==
    CASE tier = "simple" -> 1 [] tier = "medium" -> 2
      [] tier = "complex" -> 3 [] tier = "enterprise" -> 4

HigherTier(a, b) == IF TierRank(a) >= TierRank(b) THEN a ELSE b

\* enterprise keywords before complex before medium, first match wins
KeywordTier(text) ==
    IF AnyKeywordIn(enterprise_keywords, lower(text)) THEN "enterprise"
    ELSE IF AnyKeywordIn(complex_keywords, lower(text)) THEN "complex"
    ELSE IF AnyKeywordIn(medium_keywords, lower(text)) THEN "medium"
    ELSE "simple"

WordTier(text) ==
    IF WordCount(text) > 100 THEN "enterprise"
    ELSE IF WordCount(text) > 50 THEN "complex"
    ELSE IF WordCount(text) > 20 THEN "medium"
    ELSE "simple"

\* C10: whenever a task has been analyzed, now or again, the tier is the
\* higher of the text's keyword tier and its word-count tier; the word-count
\* thresholds are strict, so a text of exactly 100, 50 or 20 words and no
\* keyword is Complex, Medium or Simple.
C10_HigherOfKeywordAndWordTier ==
    complexity # "none" =>
        /\ complexity = HigherTier(KeywordTier(task_description),
                                   WordTier(task_description))
        /\ KeywordTier(task_description) = "simple" =>
              /\ WordCount(task_description) = 100 => complexity = "complex"
              /\ WordCount(task_description) = 50 => complexity = "medium"
              /\ WordCount(task_description) = 20 => complexity = "simple"

\* A text of exactly 100 words and no keyword was analyzed twice: Complex.
C10_Witness ==
    /\ analyses = 2
    /\ WordCount(task_description) = 100
    /\ KeywordTier(task_description) = "simple"
    /\ complexity = "complex"

(***************************************************************************)
(* Properties of EnhancedAutoAgentBuilder and main.  They read the reply   *)
(* and the roster, not the branch the builder took.                        *)
(***************************************************************************)
\* analyze_task_and_build_agents was called
BuildCalled == chat.kind # "none"

\* ... and raised: main went to its except block before max_rounds was set
BuildRaised == BuildCalled /\ main_pc = "failed" /\ max_rounds = 0

\* ... and returned agent_list
BuildReturned == BuildCalled /\ ~BuildRaised

HasChar(text, c) == \E i \in 1..Len(text) : text[i] = c

\* The text from the first "{" to the last "}" of a text that has both.
Enclosed(text) ==
    LET first == CHOOSE i \in 1..Len(text) :
                     text[i] = "{" /\ \A j \in 1..(i - 1) : text[j] # "{"
        last == CHOOSE i \in 1..Len(text) :
                    text[i] = "}" /\ \A j \in (i + 1)..Len(text) : text[j] # "}"
    IN  SubSeq(text, first, last)

HasBothBraces(text) == HasChar(text, "{") /\ HasChar(text, "}")

IsJsonText(text) == \E doc \in JsonDocuments : dumps(doc) = text

\* The reply holds no JSON document.
NoDocument(text) == ~HasBothBraces(text) \/ ~IsJsonText(Enclosed(text))

\* The document a reply holds.
Document(text) ==
    CHOOSE doc \in JsonDocuments : dumps(doc) = Enclosed(text)

\* The agent behind a handle of the roster.
AgentOf(handle) == IF "agent" \in DOMAIN handle THEN handle.agent ELSE handle

MadeBy(handle, methods) == AgentOf(handle).made_by \in methods

FallbackMethods ==
    {"_create_fallback_simple_agents", "_create_fallback_complex_agents"}

\* The roster the builder falls back to, tier by tier.
FallbackRoster(tier) ==
    CASE tier \in {"simple", "medium"} -> _create_fallback_simple_agents
      [] tier = "complex" -> _create_fallback_complex_agents
      [] tier = "enterprise" ->
             _create_fallback_complex_agents \o _create_coordination_agents

\* C11: for every tier, when the reply holds no "{" or no "}", or the text
\* they enclose is not valid JSON, analyze_task_and_build_agents does not
\* raise and returns a roster that is not empty, is made of fallback (and
\* coordination) agents only, and is the same for every such reply of the tier.
C11_NoDocumentGivesFallback ==
    (chat.kind = "reply" /\ NoDocument(chat.text)) =>
        /\ ~BuildRaised
        /\ agent_list # <<>>
        /\ \A i \in 1..Len(agent_list) :
               MadeBy(agent_list[i],
                      FallbackMethods \cup {"_create_coordination_agents"})
        /\ agent_list = FallbackRoster(complexity)

\* A complex task whose reply opens a brace and never closes it.
C11_Witness ==
    /\ main_pc = "team"
    /\ complexity = "complex"
    /\ chat.kind = "reply"
    /\ HasChar(chat.text, "{") /\ ~HasChar(chat.text, "}")
    /\ Len(agent_list) = 3

\* A specification that has the keys _create_agent_from_spec reads.
Materializes(spec) == {"name", "role", "system_message"} \subseteq DOMAIN spec

\* The reply holds a JSON document.
HasDocument(text) == HasBothBraces(text) /\ IsJsonText(Enclosed(text))

\* The reply holds a document that yields no agent: no 'agents' key, an empty
\* list, or a list of which no specification becomes an agent.
EmptyResult(text) ==
    /\ HasDocument(text)
    /\ LET doc == Document(text)
       IN  \/ "agents" \notin DOMAIN doc
           \/ \A i \in 1..Len(doc.agents) : ~Materializes(doc.agents[i])

\* C12: for every tier, when the reply parses as JSON but yields no agent,
\* the fallback roster is used, so analyze_task_and_build_agents never
\* returns an empty roster.
C12_EmptyResultFallsBack ==
    (chat.kind = "reply" /\ EmptyResult(chat.text)) =>
        /\ ~BuildRaised
        /\ agent_list # <<>>
        /\ agent_list = FallbackRoster(complexity)

\* The agents of a roster that one of the methods made.
MadeByAny(agents, methods) ==
    SelectSeq(agents, LAMBDA handle : MadeBy(handle, methods))

\* C13: for every tier and every reply, at most max_agents agents of the
\* roster come from the specifications of the reply (2, 3, 5, 7), and only an
\* enterprise roster is longer than max_agents, by the 2 coordination agents.
C13_DesignedAgentsWithinMax ==
    BuildReturned =>
        /\ Len(MadeByAny(agent_list, {"_create_agent_from_spec"}))
               <= max_agents(complexity)
        /\ Len(agent_list) <= max_agents(complexity)
               + (IF complexity = "enterprise" THEN 2 ELSE 0)

\* C14: the fallback roster has exactly 2 agents for the simple and medium
\* tiers, and exactly 3, of which exactly one executes code, for the complex
\* and enterprise tiers; a simple task has a roster of exactly 2 agents and
\* max_rounds 10.
C14_FallbackRosterSizes ==
    BuildReturned =>
        LET fallback == MadeByAny(agent_list, FallbackMethods)
        IN  /\ fallback # <<>> =>
                   IF complexity \in {"simple", "medium"}
                   THEN Len(fallback) = 2
                   ELSE /\ Len(fallback) = 3
                        /\ Len(SelectSeq(fallback,
                               LAMBDA handle : AgentOf(handle).code_execution)) = 1
            /\ complexity = "simple" =>
                   /\ Len(agent_list) = 2
                   /\ max_rounds \in {0, 10}

\* C15: the names of the agents of a roster are pairwise distinct.
C15_NamesDistinct ==
    BuildReturned =>
        \A i, j \in 1..Len(agent_list) :
            i # j => AgentOf(agent_list[i]).name # AgentOf(agent_list[j]).name

\* main has made base_agents for the GroupChat.
GroupChatMade == max_rounds # 0 /\ main_pc \in {"chat", "done", "failed"}

\* C16: every agent main gives to the GroupChat that does not execute code
\* is a ResilientAgent, whose generate_reply goes through execute_with_retry.
C16_DialogueAgentsResilient ==
    GroupChatMade =>
        \A i \in 1..Len(base_agents) :
            ~AgentOf(base_agents[i]).code_execution =>
                "agent" \in DOMAIN base_agents[i]

\* C17: when the chat with the TaskAnalyzer raises the quota error or the
\* retries-exhausted error of execute_with_retry, the error reaches main's
\* except block and no roster is returned in its place.
C17_RetryFailurePropagates ==
    (chat.kind = "raise" /\ chat.raised \in {"QuotaExceeded", "RetryExhausted"}) =>
        /\ main_pc = "failed"
        /\ main_error = chat.raised
        /\ agent_list = <<>>

Names(agents) == [i \in 1..Len(agents) |-> AgentOf(agents[i]).name]

\* C18: when the reply is a list of specifications of which some become
\* agents and some do not, the roster holds the agents of exactly those that
\* do, in the order of the list, and no fallback agent.
C18_OnlyFailedSpecSkipped ==
    (/\ chat.kind = "reply"
     /\ HasDocument(chat.text)
     /\ "agents" \in DOMAIN Document(chat.text)
     /\ \E i \in 1..Len(Document(chat.text).agents) :
            ~Materializes(Document(chat.text).agents[i])
     /\ \E i \in 1..Len(Document(chat.text).agents) :
            Materializes(Document(chat.text).agents[i]))
    =>
        /\ ~BuildRaised
        /\ MadeByAny(agent_list, FallbackMethods) = <<>>
        /\ Names(MadeByAny(agent_list, {"_create_agent_from_spec"}))
               = [i \in 1..Len(SelectSeq(Document(chat.text).agents, Materializes))
                      |-> SelectSeq(Document(chat.text).agents, Materializes)[i].name]

C20_MaxRoundsClamped ==
    GroupChatMade =>
        LET n == Len(agent_list)
        IN  /\ max_rounds \in 10..30
            /\ n <= 2 => max_rounds = 10
            /\ n >= 8 => max_rounds = 30
            /\ (n > 2 /\ n < 8) => max_rounds = 4 * n
            /\ \A m \in 0..n : max_rounds_of(m) <= max_rounds

\* A roster of 8: six designed agents and the two coordination agents.
C20_Witness ==
    /\ main_pc = "chat"
    /\ Len(agent_list) = 8
    /\ max_rounds = 30

\* C23: a KeyboardInterrupt in the sleep of wait_if_needed or in a sleep of
\* execute_with_retry leaves a RateLimitManager with min_rpm <= current_rpm
\* <= max_rpm, error_count >= 0, success_count >= 0, and request_times
\* holding only timestamps it held before: the interrupted call appended none.
C23_InterruptLeavesLimiterSound ==
    [][ (interrupted = "none" /\ interrupted' # "none") =>
            /\ rate_manager'.min_rpm <= rate_manager'.current_rpm
            /\ rate_manager'.current_rpm <= rate_manager'.max_rpm
            /\ rate_manager'.error_count >= 0
            /\ rate_manager'.success_count >= 0
            /\ Len(rate_manager'.request_times) <= Len(rate_manager.request_times)
            /\ \A i \in DOMAIN rate_manager'.request_times :
                   \E j \in DOMAIN rate_manager.request_times :
                       rate_manager.request_times[j] = rate_manager'.request_times[i]
      ]_vars

\* Interrupted in wait_if_needed while the window was full.
C23_Witness ==
    /\ interrupted = "wait_if_needed"
    /\ Len(rate_manager.request_times) >= rate_manager.current_rpm

\* C25: after every record_success and record_error call error_count is 0, 1
\* or 2, and current_rpm goes down only in a record_error call that is at
\* least the 3rd since it last went down (since construction, the first time).
C25_ThreeErrorsPerDecrease ==
    /\ [](rate_manager.error_count \in 0..2)
    /\ [][ rate_manager'.current_rpm < rate_manager.current_rpm =>
               /\ last_op' = "record_error"
               /\ errors_since_decrease + 1 >= 3 ]_vars

\* Six errors and no success: the ceiling has gone down twice.
C25_Witness ==
    /\ rate_manager.current_rpm = rate_manager.base_rpm - 4
    /\ rate_manager.success_count = 0
    /\ errors_since_decrease = 0
    /\ last_op = "record_error"

\* The fallback agents of a tier, without the coordination agents.
TierFallback(tier) ==
    IF tier \in {"simple", "medium"} THEN _create_fallback_simple_agents
    ELSE _create_fallback_complex_agents

\* The reply is a list of specifications in which one that makes
\* _create_agent_from_spec raise comes after one that became an agent.
RaisesAfterAgent(text) ==
    /\ HasBothBraces(text)
    /\ \E doc \in JsonDocuments :
           /\ "agents" \in DOMAIN doc
           /\ \E k \in 1..Len(doc.agents) :
                  /\ ~({"role", "system_message"} \subseteq DOMAIN doc.agents[k])
                  /\ \E i \in 1..(k - 1) : Materializes(doc.agents[i])
                  /\ \A i \in 1..(k - 1) :
                         {"role", "system_message"} \subseteq DOMAIN doc.agents[i]
           /\ dumps(doc) = Enclosed(text)

\* C26: the agents of a roster other than the coordination agents are either
\* all made from the specifications of the reply or exactly the fallback
\* agents of the tier, never both; when making an agent raises after other
\* specifications became agents, the roster holds the fallback agents and
\* none of those.
C26_DesignedOrFallback ==
    BuildReturned =>
        LET others == SelectSeq(agent_list,
                          LAMBDA handle :
                              ~MadeBy(handle, {"_create_coordination_agents"}))
        IN  /\ \/ \A i \in 1..Len(others) :
                      MadeBy(others[i], {"_create_agent_from_spec"})
               \/ others = TierFallback(complexity)
            /\ (chat.kind = "reply" /\ RaisesAfterAgent(chat.text)) =>
                   others = TierFallback(complexity)

\* A complex task whose reply has a specification without 'role' after one
\* that became an agent: the three fallback agents and nothing else.
C26_Witness ==
    /\ main_pc = "team"
    /\ complexity = "complex"
    /\ chat.kind = "reply" /\ RaisesAfterAgent(chat.text)
    /\ agent_list = _create_fallback_complex_agents

====
